---- MODULE Spec2Model ----
(***************************************************************************)
(* State-machine model of the collage generator's App component            *)
(* (src/App.tsx, first component, lines 1-581): the configuration, the     *)
(* asynchronous image loaders, the pointer/touch drag controller and the   *)
(* redraw that follows every change of config or loadedImages.             *)
(*                                                                         *)
(* Conventions                                                             *)
(*  - One action is one browser event together with the React commit it    *)
(*    causes: the handler, the re-render, the effects whose dependencies   *)
(*    changed (cleanup first, then the new effect) and the drawCanvas      *)
(*    effect.  JavaScript runs these to completion before the next event.  *)
(*  - A File object is a natural number (a fresh one per upload); 0 is     *)
(*    null.  A decoded HTMLImageElement is [src, width, height]; the       *)
(*    record NoImage is null.                                              *)
(*  - ImageTransform.scale is kept in tenths (the slider's step is 0.1),   *)
(*    so INITIAL_TRANSFORM.scale = 1 is 10.  Arithmetic on coordinates is  *)
(*    exact; the inputs are chosen so that every quotient is an integer.   *)
(***************************************************************************)
EXTENDS Integers, Sequences, FiniteSets, TLC

VARIABLES
    config,                 \* useState<CollageConfig>
    loadedImages,           \* useState {char, overlay}
    tasks,                  \* loadImage promises not yet settled, with their `active` flag
    nextFile,               \* number of File objects created so far
    isDragging,             \* useState(false)
    dragStart,              \* useState({x: 0, y: 0})
    initialDragTransform,   \* useState({x: 0, y: 0})
    isHoveringChar,         \* useState(false)
    rect,                   \* canvas.getBoundingClientRect()
    touches,                \* the platform's list of active touch points (client coordinates)
    frame,                  \* what the last drawCanvas call drew
    events,                 \* number of events handled so far (bounds a behaviour)
    gesture,                \* the pointer gesture in progress, as the user performed it
    discarded               \* the files whose decode settled after they were replaced

\* the state of the program
state == <<config, loadedImages, tasks, nextFile, isDragging, dragStart,
           initialDragTransform, isHoveringChar, rect, touches, frame>>

vars == <<state, events, gesture, discarded>>

-----------------------------------------------------------------------------
(* Bounds of the model *)

MaxEvents == 7           \* events (input events and decode completions) in one behaviour
MaxTouches == 2          \* simultaneous touch points

-----------------------------------------------------------------------------
(* Program constants *)

NoFile == 0
CanvasWidth == 900
CanvasHeight == 1200
CenterX == 450
CenterY == 600
Margin == 80

NoImage == [src |-> NoFile, width |-> 0, height |-> 0]

INITIAL_TRANSFORM == [x |-> 0, y |-> 0, scale |-> 10, rotation |-> 0]

InitialConfig ==
    [name |-> "namae", furigana |-> "furigana",
     bgColor1 |-> "#ffffff", bgColor2 |-> "#fecdd3",
     characterImage |-> NoFile, overlayImage |-> NoFile,
     characterTransform |-> INITIAL_TRANSFORM,
     overlayTransform |-> INITIAL_TRANSFORM]

ImageFields == {"characterImage", "overlayImage"}
Targets == {"character", "overlay"}

\* the loadedImages key and the transform field that belong to an image field
LoadedKey(field) == IF field = "characterImage" THEN "char" ELSE "overlay"
ImageFieldOf(key) == IF key = "char" THEN "characterImage" ELSE "overlayImage"
TransformField(field) ==
    IF field = "characterImage" THEN "characterTransform" ELSE "overlayTransform"
TargetField(target) ==
    IF target = "character" THEN "characterTransform" ELSE "overlayTransform"
TargetImage(target) ==
    IF target = "character" THEN "characterImage" ELSE "overlayImage"

-----------------------------------------------------------------------------
(* drawCanvas: the inputs the compositor was handed at the last redraw *)

drawCanvas(cfg, imgs) ==
    [config |-> cfg, char |-> imgs.char, overlay |-> imgs.overlay]

-----------------------------------------------------------------------------
(* Image loaders: the two useEffect hooks keyed on config.*Image *)

\* the cleanup of the previous effect run for this key: active = false
LoadCleanup(ts, key) ==
    { IF t.key = key THEN [t EXCEPT !.active = FALSE] ELSE t : t \in ts }

\* the tasks after the effect for `key` re-ran with `file`
LoadEffectTasks(ts, key, file) ==
    IF file = NoFile
    THEN LoadCleanup(ts, key)
    ELSE LoadCleanup(ts, key) \cup {[key |-> key, file |-> file, active |-> TRUE]}

\* LoadEffectImages that drops the decoded image whenever the resource changes
LoadEffectImagesClearing(imgs, key, file) == [imgs EXCEPT ![key] = NoImage]

\* the loaded images after the effect for `key` re-ran with `file`
LoadEffectImages(imgs, key, file) ==
    IF file = NoFile THEN [imgs EXCEPT ![key] = NoImage] ELSE imgs

\* ThenLoaded without the check of `active`
ThenLoadedUnguarded(imgs, t, img) == [imgs EXCEPT ![t.key] = img]

\* loadImage(url).then(img => { if (active) setLoadedImages(...) })
ThenLoaded(imgs, t, img) ==
    IF t.active THEN [imgs EXCEPT ![t.key] = img] ELSE imgs

\* .catch(e => console.error(...)): the rejection is logged, no state is set
CatchLoaded(imgs, t) == imgs

DecodeSucceeds(t, w, h) ==
    /\ t \in tasks
    /\ tasks' = tasks \ {t}
    /\ loadedImages' = ThenLoaded(loadedImages, t, [src |-> t.file, width |-> w, height |-> h])
    /\ frame' = IF t.active THEN drawCanvas(config, loadedImages') ELSE frame
    /\ UNCHANGED <<config, nextFile, isDragging, dragStart, initialDragTransform,
                   isHoveringChar, rect, touches>>

DecodeFails(t) ==
    /\ t \in tasks
    /\ tasks' = tasks \ {t}
    /\ loadedImages' = CatchLoaded(loadedImages, t)
    /\ UNCHANGED <<config, frame, nextFile, isDragging, dragStart, initialDragTransform,
                   isHoveringChar, rect, touches>>

-----------------------------------------------------------------------------
(* Form handlers *)

\* FileUploadConfig that keeps the layer's transform
FileUploadConfigKeepingTransform(cfg, field, file) == [cfg EXCEPT ![field] = file]

\* handleFileUpload(event, field): hasFile is event.target.files?.[0] being set
FileUploadConfig(cfg, field, file) ==
    [cfg EXCEPT ![field] = file, ![TransformField(field)] = INITIAL_TRANSFORM]

handleFileUpload(field, hasFile) ==
    IF hasFile
    THEN /\ nextFile' = nextFile + 1
         /\ config' = FileUploadConfig(config, field, nextFile')
         /\ tasks' = LoadEffectTasks(tasks, LoadedKey(field), nextFile')
         /\ loadedImages' = LoadEffectImages(loadedImages, LoadedKey(field), nextFile')
         /\ frame' = drawCanvas(config', loadedImages')
         /\ UNCHANGED <<isDragging, dragStart, initialDragTransform, isHoveringChar,
                        rect, touches>>
    ELSE UNCHANGED state

\* handleInputChange(field, value) for the text and colour inputs
handleInputChange(field, value) ==
    /\ config' = [config EXCEPT ![field] = value]
    /\ frame' = drawCanvas(config', loadedImages)
    /\ UNCHANGED <<loadedImages, tasks, nextFile, isDragging, dragStart,
                   initialDragTransform, isHoveringChar, rect, touches>>

\* handleTransformChange(target, key, value); the sliders exist only while
\* the target's image resource is selected
handleTransformChange(target, key, value) ==
    /\ config[TargetImage(target)] # NoFile
    /\ config' = [config EXCEPT ![TargetField(target)][key] = value]
    /\ frame' = drawCanvas(config', loadedImages)
    /\ UNCHANGED <<loadedImages, tasks, nextFile, isDragging, dragStart,
                   initialDragTransform, isHoveringChar, rect, touches>>

\* resetTransform(target)
resetTransform(target) ==
    /\ config[TargetImage(target)] # NoFile
    /\ config' = [config EXCEPT ![TargetField(target)] = INITIAL_TRANSFORM]
    /\ frame' = drawCanvas(config', loadedImages)
    /\ UNCHANGED <<loadedImages, tasks, nextFile, isDragging, dragStart,
                   initialDragTransform, isHoveringChar, rect, touches>>

-----------------------------------------------------------------------------
(* Coordinate mapper and hit tester *)

\* getCanvasCoordinates without the correction for the displayed size
getCanvasCoordinatesUnscaled(clientX, clientY) ==
    [x |-> clientX - rect.left, y |-> clientY - rect.top]

\* getCanvasCoordinates(clientX, clientY) with canvas.width = 900 and
\* canvas.height = 1200 (set by every drawCanvas call)
getCanvasCoordinates(clientX, clientY) ==
    LET scaleX == CanvasWidth \div rect.width
        scaleY == CanvasHeight \div rect.height
    IN  [x |-> (clientX - rect.left) * scaleX,
         y |-> (clientY - rect.top) * scaleY]

\* BaseScale that always fits the width
BaseScaleByWidth(imgW, imgH) == <<CanvasWidth - (Margin * 2), imgW>>

\* baseScale = Math.min(maxCharWidth / imgW, maxCharHeight / imgH), as the
\* fraction <<numerator, denominator>>
BaseScale(imgW, imgH) ==
    LET maxCharWidth == CanvasWidth - (Margin * 2)
        maxCharHeight == CanvasHeight - (Margin * 2)
    IN  IF maxCharWidth * imgH <= maxCharHeight * imgW
        THEN <<maxCharWidth, imgW>>
        ELSE <<maxCharHeight, imgH>>

\* isPointInCharacter with a box that turns with the image: at a quarter
\* turn the width and the height of the box change places
isPointInCharacterTurned(x, y, imgs, cfg) ==
    IF imgs.char = NoImage THEN FALSE
    ELSE
      LET cx == CenterX + cfg.characterTransform.x
          cy == CenterY + cfg.characterTransform.y
          quarter == cfg.characterTransform.rotation \in {-90, 90}
          imgW == IF quarter THEN imgs.char.height ELSE imgs.char.width
          imgH == IF quarter THEN imgs.char.width ELSE imgs.char.height
          baseScale == BaseScale(imgs.char.width, imgs.char.height)
          dispDen == baseScale[2] * 10
          dispWNum == imgW * baseScale[1] * cfg.characterTransform.scale
          dispHNum == imgH * baseScale[1] * cfg.characterTransform.scale
      IN  /\ 2 * dispDen * (x - cx) >= - dispWNum
          /\ 2 * dispDen * (x - cx) <= dispWNum
          /\ 2 * dispDen * (y - cy) >= - dispHNum
          /\ 2 * dispDen * (y - cy) <= dispHNum

\* isPointInCharacter(x, y) for the given loaded images and configuration.
\* displayW = imgW * baseScale * scale is the fraction dispWNum / dispDen
\* (scale is in tenths), and  x >= cx - displayW / 2  is compared after
\* multiplying both sides by 2 * dispDen.
isPointInCharacter(x, y, imgs, cfg) ==
    IF imgs.char = NoImage THEN FALSE
    ELSE
      LET cx == CenterX + cfg.characterTransform.x
          cy == CenterY + cfg.characterTransform.y
          imgW == imgs.char.width
          imgH == imgs.char.height
          baseScale == BaseScale(imgW, imgH)
          dispDen == baseScale[2] * 10
          dispWNum == imgW * baseScale[1] * cfg.characterTransform.scale
          dispHNum == imgH * baseScale[1] * cfg.characterTransform.scale
      IN  /\ 2 * dispDen * (x - cx) >= - dispWNum
          /\ 2 * dispDen * (x - cx) <= dispWNum
          /\ 2 * dispDen * (y - cy) >= - dispHNum
          /\ 2 * dispDen * (y - cy) <= dispHNum

-----------------------------------------------------------------------------
(* Drag controller: the canvas handlers *)

\* a React.MouseEvent, and a React.TouchEvent carrying the active touches
MouseEv(p) == [isTouch |-> FALSE, touches |-> <<>>, clientX |-> p.x, clientY |-> p.y]
TouchEv(ts) == [isTouch |-> TRUE, touches |-> ts, clientX |-> 0, clientY |-> 0]

\* 'touches' in e ? e.touches[0] : e, mapped to canvas space
EventPoint(e) ==
    IF e.isTouch
    THEN getCanvasCoordinates(e.touches[1].x, e.touches[1].y)
    ELSE getCanvasCoordinates(e.clientX, e.clientY)

\* handleMouseDown without the hit test
handleMouseDownAnywhere(e) ==
    /\ IF loadedImages.char = NoImage
       THEN UNCHANGED <<isDragging, dragStart, initialDragTransform>>
       ELSE /\ isDragging' = TRUE
            /\ dragStart' = EventPoint(e)
            /\ initialDragTransform' = [x |-> config.characterTransform.x,
                                        y |-> config.characterTransform.y]
    /\ UNCHANGED <<config, frame, isHoveringChar>>

handleMouseDown(e) ==
    /\ IF loadedImages.char = NoImage
       THEN UNCHANGED <<isDragging, dragStart, initialDragTransform>>
       ELSE LET p == EventPoint(e) IN
            IF isPointInCharacter(p.x, p.y, loadedImages, config)
            THEN /\ isDragging' = TRUE
                 /\ dragStart' = p
                 /\ initialDragTransform' = [x |-> config.characterTransform.x,
                                             y |-> config.characterTransform.y]
            ELSE UNCHANGED <<isDragging, dragStart, initialDragTransform>>
    /\ UNCHANGED <<config, frame, isHoveringChar>>

\* the slider range of an offset
SliderRange(v) == IF v < -400 THEN -400 ELSE IF v > 400 THEN 400 ELSE v

\* DragTransform with the offset kept inside the sliders' range
DragTransformClamped(cfg, p) ==
    [cfg.characterTransform EXCEPT
        !.x = SliderRange(initialDragTransform.x + (p.x - dragStart.x)),
        !.y = SliderRange(initialDragTransform.y + (p.y - dragStart.y))]

\* DragTransform with the delta added to the current offset instead of the anchor
DragTransformAccumulating(cfg, p) ==
    [cfg.characterTransform EXCEPT
        !.x = cfg.characterTransform.x + (p.x - dragStart.x),
        !.y = cfg.characterTransform.y + (p.y - dragStart.y)]

\* DragTransform that starts from the initial transform
DragTransformResetting(cfg, p) ==
    [INITIAL_TRANSFORM EXCEPT
        !.x = initialDragTransform.x + (p.x - dragStart.x),
        !.y = initialDragTransform.y + (p.y - dragStart.y)]

\* the characterTransform a move to canvas point p writes while dragging
DragTransform(cfg, p) ==
    [cfg.characterTransform EXCEPT
        !.x = initialDragTransform.x + (p.x - dragStart.x),
        !.y = initialDragTransform.y + (p.y - dragStart.y)]

\* HoverAfterMove that also updates the flag for touch events
HoverAfterMoveAnyPointer(e, p) ==
    IF ~isDragging
    THEN isPointInCharacter(p.x, p.y, loadedImages, config)
    ELSE isHoveringChar

\* the hover flag after a move: updated only for mouse events while not dragging
HoverAfterMove(e, p) ==
    IF ~e.isTouch /\ ~isDragging
    THEN isPointInCharacter(p.x, p.y, loadedImages, config)
    ELSE isHoveringChar

\* handleMouseMove whose drag moves are not followed by a redraw
handleMouseMoveUndrawn(e) ==
    LET p == EventPoint(e) IN
    /\ isHoveringChar' = HoverAfterMove(e, p)
    /\ IF isDragging
       THEN config' = [config EXCEPT !.characterTransform = DragTransform(config, p)]
       ELSE UNCHANGED config
    /\ UNCHANGED <<frame, isDragging, dragStart, initialDragTransform>>

handleMouseMove(e) ==
    LET p == EventPoint(e) IN
    /\ isHoveringChar' = HoverAfterMove(e, p)
    /\ IF isDragging
       THEN /\ config' = [config EXCEPT !.characterTransform = DragTransform(config, p)]
            /\ frame' = drawCanvas(config', loadedImages)
       ELSE UNCHANGED <<config, frame>>
    /\ UNCHANGED <<isDragging, dragStart, initialDragTransform>>

handleMouseUp ==
    /\ isDragging' = FALSE
    /\ UNCHANGED <<config, frame, dragStart, initialDragTransform, isHoveringChar>>

\* canvas bindings
MouseDown(p) ==
    /\ handleMouseDown(MouseEv(p))
    /\ UNCHANGED <<loadedImages, tasks, nextFile, rect, touches>>

MouseMove(p) ==
    /\ handleMouseMove(MouseEv(p))
    /\ UNCHANGED <<loadedImages, tasks, nextFile, rect, touches>>

MouseUp ==
    /\ handleMouseUp
    /\ UNCHANGED <<loadedImages, tasks, nextFile, rect, touches>>

\* a canvas without the onMouseLeave binding
MouseLeaveUnbound == UNCHANGED state

MouseLeave ==
    /\ handleMouseUp
    /\ UNCHANGED <<loadedImages, tasks, nextFile, rect, touches>>

\* a new touch point goes to the end of the touch list
TouchStart(p) ==
    /\ touches' = Append(touches, p)
    /\ handleMouseDown(TouchEv(touches'))
    /\ UNCHANGED <<loadedImages, tasks, nextFile, rect>>

\* the i-th active touch point moves to p
TouchMove(i, p) ==
    /\ i \in 1..Len(touches)
    /\ touches[i] # p
    /\ touches' = [touches EXCEPT ![i] = p]
    /\ handleMouseMove(TouchEv(touches'))
    /\ UNCHANGED <<loadedImages, tasks, nextFile, rect>>

\* the i-th active touch point is lifted
TouchEnd(i) ==
    /\ i \in 1..Len(touches)
    /\ touches' = [j \in 1..(Len(touches) - 1) |->
                     IF j < i THEN touches[j] ELSE touches[j + 1]]
    /\ handleMouseUp
    /\ UNCHANGED <<loadedImages, tasks, nextFile, rect>>

-----------------------------------------------------------------------------
(* The redraw effect on its own: a commit that gave config or loadedImages  *)
(* a new object with the same contents (resetTransform on a transform that  *)
(* is already the initial one, the null branch of a loader effect) runs     *)
(* drawCanvas again and nothing else.                                       *)

\* a redraw that also ends the drag session
RedrawEndingDrag ==
    /\ frame' = drawCanvas(config, loadedImages)
    /\ isDragging' = FALSE
    /\ isHoveringChar' = FALSE
    /\ UNCHANGED <<config, loadedImages, tasks, nextFile, dragStart,
                   initialDragTransform, rect, touches>>

Redraw ==
    /\ frame' = drawCanvas(config, loadedImages)
    /\ UNCHANGED <<config, loadedImages, tasks, nextFile, isDragging, dragStart,
                   initialDragTransform, isHoveringChar, rect, touches>>

-----------------------------------------------------------------------------
(* The 2D canvas the drawCanvas callback draws on.  A canvas is             *)
(* [ctx, stack, path, ops]: the drawing state of its context, the states    *)
(* pushed by save(), the current path, and the painting calls made since    *)
(* the bitmap was last cleared, each with the drawing state it was made     *)
(* in.  Lengths are integers or, for a drawImage, numerators over the       *)
(* denominator given last; angles are in degrees; scale factors in tenths.  *)

\* the drawing state of a context after a reset
DefaultCtx ==
    [fillStyle |-> "#000000", strokeStyle |-> "#000000", font |-> "10px sans-serif",
     lineWidth |-> 1, lineJoin |-> "miter", textAlign |-> "start",
     textBaseline |-> "alphabetic", filter |-> "none",
     globalCompositeOperation |-> "source-over", shadowColor |-> "transparent",
     shadowBlur |-> 0, shadowOffsetX |-> 0, shadowOffsetY |-> 0,
     transform |-> <<>>, clip |-> <<>>]

\* ResetCanvas if assigning the size left the canvas alone
ResetCanvasKeeping(c) == c

\* canvas.width = 900; canvas.height = 1200: assigning the size clears the
\* bitmap and resets the context
ResetCanvas(c) == [ctx |-> DefaultCtx, stack |-> <<>>, path |-> <<>>, ops |-> <<>>]

\* ctx.<attr> = v
SetAttr(c, attr, v) == [c EXCEPT !.ctx[attr] = v]

\* Restore that pops nothing
RestoreNothing(c) == c

\* ctx.save() and ctx.restore()
Save(c) == [c EXCEPT !.stack = Append(@, c.ctx)]
Restore(c) ==
    IF c.stack = <<>> THEN c
    ELSE [c EXCEPT !.ctx = c.stack[Len(c.stack)],
                   !.stack = SubSeq(c.stack, 1, Len(c.stack) - 1)]

\* ctx.translate(x, y), ctx.rotate(deg * Math.PI / 180), ctx.scale(s, s)
Translate(c, x, y) ==
    [c EXCEPT !.ctx.transform = Append(@, [t |-> "translate", a |-> x, b |-> y])]
Rotate(c, deg) ==
    [c EXCEPT !.ctx.transform = Append(@, [t |-> "rotate", a |-> deg, b |-> 0])]
Scale(c, sx, sy) ==
    [c EXCEPT !.ctx.transform = Append(@, [t |-> "scale", a |-> sx, b |-> sy])]

\* ctx.beginPath(); ctx.rect(x, y, w, h)
RectPath(c, x, y, w, h) == [c EXCEPT !.path = <<x, y, w, h>>]

\* a painting call, recorded with the drawing state it is made in
Emit(c, stage, op, text, img, args) ==
    [c EXCEPT !.ops = Append(@, [stage |-> stage, op |-> op, text |-> text,
                                 img |-> img, args |-> args, ctx |-> c.ctx])]

\* ctx.clip(): the current path, under the current transform, bounds what
\* is painted from now on
Clip(c) ==
    LET region == [path |-> c.path, transform |-> c.ctx.transform]
        clipped == [c EXCEPT !.ctx.clip = Append(@, region)]
    IN  Emit(clipped, "overlay", "clip", "", NoFile, c.path)

FillRect(c, stage, x, y, w, h) == Emit(c, stage, "fillRect", "", NoFile, <<x, y, w, h>>)
DrawImage(c, stage, img, args) == Emit(c, stage, "drawImage", "", img.src, args)
StrokeText(c, stage, text, x, y) == Emit(c, stage, "strokeText", text, NoFile, <<x, y>>)
FillText(c, stage, text, x, y) == Emit(c, stage, "fillText", text, NoFile, <<x, y>>)

-----------------------------------------------------------------------------
(* The body of the drawCanvas callback, run on canvas c with the values f   *)
(* (a frame: config and the two loaded images) the callback closed over.    *)

\* MinFraction that gives the larger of the two
MinFractionLarger(p, q) == IF p[1] * q[2] >= q[1] * p[2] THEN p ELSE q

\* the smaller and the larger of two fractions <<numerator, denominator>>
\* with positive denominators: Math.min and Math.max
MinFraction(p, q) == IF p[1] * q[2] <= q[1] * p[2] THEN p ELSE q
MaxFraction(p, q) == IF p[1] * q[2] >= q[1] * p[2] THEN p ELSE q

\* 1. Fill Background 1
FillBackground(c, f) ==
    FillRect(SetAttr(c, "fillStyle", f.config.bgColor1), "background",
             0, 0, CanvasWidth, CanvasHeight)

\* 2. Draw Background 2 (The Strip); the save() is restored after the overlay
DrawStrip(c, f) ==
    LET c1 == Rotate(Translate(Save(c), -100, 850), -10)
    IN  FillRect(SetAttr(c1, "fillStyle", f.config.bgColor2), "strip", 0, -200, 1400, 300)

\* 3. Draw Overlay Pattern, then the restore() that closes the strip's save()
DrawOverlay(c, f) ==
    IF f.overlay = NoImage THEN Restore(c)
    ELSE
      LET overlayImg == f.overlay
          tr == f.config.overlayTransform
          coverScale == MaxFraction(<<1400, overlayImg.width>>, <<300, overlayImg.height>>)
          baseWNum == overlayImg.width * coverScale[1]
          baseHNum == overlayImg.height * coverScale[1]
          c1 == Clip(RectPath(c, 0, -200, 1400, 300))
          c2 == Translate(Translate(Save(c1), 700, -50), tr.x, tr.y)
          c3 == Scale(Rotate(c2, tr.rotation), tr.scale, tr.scale)
          c4 == SetAttr(SetAttr(c3, "filter", "grayscale(100%) opacity(0.5)"),
                        "globalCompositeOperation", "multiply")
          c5 == DrawImage(c4, "overlay", overlayImg,
                          << -baseWNum, -baseHNum, 2 * baseWNum, 2 * baseHNum,
                             2 * coverScale[2] >>)
      IN  Restore(Restore(c5))

\* DrawCharacter that also needs the pattern image
DrawCharacterOverPattern(c, f) ==
    IF f.char = NoImage \/ f.overlay = NoImage THEN c
    ELSE DrawImage(c, "character", f.char, <<0, 0, f.char.width, f.char.height, 1>>)

\* 4. Draw Character
DrawCharacter(c, f) ==
    IF f.char = NoImage THEN c
    ELSE
      LET charImg == f.char
          tr == f.config.characterTransform
          margin == 80
          maxCharWidth == CanvasWidth - (margin * 2)
          maxCharHeight == CanvasHeight - (margin * 2)
          baseScale == MinFraction(<<maxCharWidth, charImg.width>>,
                                   <<maxCharHeight, charImg.height>>)
          baseDrawWNum == charImg.width * baseScale[1]
          baseDrawHNum == charImg.height * baseScale[1]
          cx == CanvasWidth \div 2
          cy == CanvasHeight \div 2
          c1 == Translate(Save(c), cx + tr.x, cy + tr.y)
          c2 == Scale(Rotate(c1, tr.rotation), tr.scale, tr.scale)
          c3 == SetAttr(SetAttr(c2, "shadowColor", "rgba(0,0,0,0.2)"), "shadowBlur", 20)
          c4 == SetAttr(SetAttr(c3, "shadowOffsetX", 5), "shadowOffsetY", 10)
          c5 == DrawImage(c4, "character", charImg,
                          << -baseDrawWNum, -baseDrawHNum, 2 * baseDrawWNum,
                             2 * baseDrawHNum, 2 * baseScale[2] >>)
      IN  Restore(c5)

\* Draw Furigana
DrawFurigana(c, f) ==
    IF f.config.furigana = "" THEN c
    ELSE
      LET c1 == SetAttr(c, "font", "bold 40px 'M PLUS Rounded 1c'")
          c2 == SetAttr(SetAttr(c1, "lineWidth", 6), "strokeStyle", "white")
          c3 == StrokeText(c2, "furigana", f.config.furigana, CanvasWidth \div 2, 80)
      IN  FillText(SetAttr(c3, "fillStyle", "#555"), "furigana",
                   f.config.furigana, CanvasWidth \div 2, 80)

\* DrawName that draws the name only under a phonetic annotation
DrawNameUnderFurigana(c, f) ==
    IF f.config.name = "" \/ f.config.furigana = "" THEN c
    ELSE FillText(StrokeText(c, "name", f.config.name, CanvasWidth \div 2, 180),
                  "name", f.config.name, CanvasWidth \div 2, 180)

\* Draw Name
DrawName(c, f) ==
    IF f.config.name = "" THEN c
    ELSE
      LET c1 == SetAttr(c, "font", "800 120px 'M PLUS Rounded 1c'")
          c2 == SetAttr(SetAttr(c1, "lineWidth", 15), "strokeStyle", "white")
          c3 == SetAttr(c2, "lineJoin", "round")
          c4 == StrokeText(c3, "name", f.config.name, CanvasWidth \div 2, 180)
      IN  FillText(SetAttr(c4, "fillStyle", "#333"), "name",
                   f.config.name, CanvasWidth \div 2, 180)

\* 5. Draw Text
DrawText(c, f) ==
    LET c1 == SetAttr(SetAttr(Save(c), "textAlign", "center"), "textBaseline", "middle")
    IN  Restore(DrawName(DrawFurigana(c1, f), f))

\* DrawStages with the character drawn before the strip and its pattern
DrawStagesCharacterFirst(c, f) ==
    DrawText(DrawOverlay(DrawStrip(DrawCharacter(FillBackground(c, f), f), f), f), f)

\* the stages of the callback after the canvas was sized
DrawStages(c, f) ==
    DrawText(DrawCharacter(DrawOverlay(DrawStrip(FillBackground(c, f), f), f), f), f)

\* the canvas after the callback ran on canvas c
Paint(c, f) == DrawStages(ResetCanvas(c), f)

\* the canvas of a freshly mounted element
BlankCanvas == [ctx |-> DefaultCtx, stack |-> <<>>, path |-> <<>>, ops |-> <<>>]

-----------------------------------------------------------------------------
(* Inputs *)

\* natural sizes of decoded images: a portrait one (fitted by height) and a
\* wide one (fitted by width)
ImageSizes == { <<200, 300>>, <<1480, 520>> }

\* layout of the canvas element: displayed at half its internal resolution,
\* away from the viewport's corner
Rects == { [left |-> 10, top |-> 20, width |-> 450, height |-> 600] }

\* pointer positions on the displayed element: top-left corner, centre, and
\* the middle of the right edge
ClientPoints ==
    { [x |-> rect.left + (k[1] * rect.width) \div 2,
       y |-> rect.top + (k[2] * rect.height) \div 2] :
         k \in { <<0, 0>>, <<1, 1>>, <<2, 1>> } }

TextEdits == { <<"name", "">> }

\* <<target, key, value>>
SliderEdits == { <<"character", "x", -400>>, <<"character", "scale", 20>>,
                 <<"character", "rotation", 90>>, <<"overlay", "x", 50>> }

-----------------------------------------------------------------------------
(* Observation of a behaviour: the gesture the user is performing and the   *)
(* decodes that settled late.  Neither is read by an action of the program. *)

Downs == {"mousedown", "touchstart"}
Moves == {"mousemove", "touchmove"}
Ups == {"mouseup", "mouseleave", "touchend"}

\* the primary offset of a configuration
Offset(cfg) == [x |-> cfg.characterTransform.x, y |-> cfg.characterTransform.y]

\* the resource a task decodes is no longer the one selected for its layer
Superseded(t) == t.file # config[ImageFieldOf(t.key)]

\* phase: "none", "dragging" (from the pointer-down that took the controller
\* from Idle to Dragging) or "ended" (the event handled last ended it);
\* by: the event type that started it; end: the event type that ended it;
\* P: the canvas point where it started; a: the primary offset at that
\* moment; last: the canvas point of the last pointer position; clean: only
\* pointer moves happened since it started; n: the drags started so far;
\* over: "changed" when something other than a pointer move changed the
\* primary offset during the drag, "overwritten" when a pointer move came
\* after that, "no" otherwise
NoGesture ==
    [phase |-> "none", by |-> "none", end |-> "none", P |-> [x |-> 0, y |-> 0],
     a |-> [x |-> 0, y |-> 0], last |-> [x |-> 0, y |-> 0], clean |-> TRUE, n |-> 0,
     over |-> "no"]

GestureAfter(e) ==
    IF e.type \in Downs /\ ~isDragging /\ isDragging'
    THEN [phase |-> "dragging", by |-> e.type, end |-> "none", P |-> e.pt,
          a |-> Offset(config), last |-> e.pt, clean |-> TRUE, n |-> gesture.n + 1,
          over |-> "no"]
    ELSE IF gesture.phase = "dragging"
    THEN IF e.type \in Moves
         THEN [gesture EXCEPT !.last = e.pt,
                              !.over = IF @ = "changed" THEN "overwritten" ELSE @]
         ELSE IF e.type \in Ups THEN [gesture EXCEPT !.phase = "ended", !.end = e.type]
         ELSE [gesture EXCEPT !.clean = FALSE,
                              !.over = IF Offset(config') # Offset(config)
                                       THEN "changed" ELSE @]
    ELSE [NoGesture EXCEPT !.n = gesture.n]

DiscardedAfter(e) ==
    IF e.type \in {"load", "error"} /\ Superseded(e.task)
    THEN discarded \cup {e.task.file}
    ELSE discarded

\* one more event, e, has been handled
Handled(e) ==
    /\ events < MaxEvents
    /\ events' = events + 1
    /\ gesture' = GestureAfter(e)
    /\ discarded' = DiscardedAfter(e)

-----------------------------------------------------------------------------
(* Specification *)

Init ==
    /\ config = InitialConfig
    /\ loadedImages = LoadEffectImages(
                        LoadEffectImages([char |-> NoImage, overlay |-> NoImage],
                                         "char", InitialConfig.characterImage),
                        "overlay", InitialConfig.overlayImage)
    /\ tasks = {}
    /\ nextFile = 0
    /\ isDragging = FALSE
    /\ dragStart = [x |-> 0, y |-> 0]
    /\ initialDragTransform = [x |-> 0, y |-> 0]
    /\ isHoveringChar = FALSE
    /\ rect \in Rects
    /\ touches = <<>>
    /\ frame = drawCanvas(config, loadedImages)
    /\ events = 0
    /\ gesture = NoGesture
    /\ discarded = {}

\* the canvas points of the pointer of a mouse event at client point p, and
\* of a touch event after which the active touch points are ts
MousePoint(p) == EventPoint(MouseEv(p))
TouchPoint(ts) == EventPoint(TouchEv(ts))

Next ==
    \/ \E field \in ImageFields, hasFile \in BOOLEAN :
         /\ handleFileUpload(field, hasFile)
         /\ Handled([type |-> "change"])
    \/ \E t \in tasks, sz \in ImageSizes :
         /\ DecodeSucceeds(t, sz[1], sz[2])
         /\ Handled([type |-> "load", task |-> t])
    \/ \E t \in tasks :
         /\ DecodeFails(t)
         /\ Handled([type |-> "error", task |-> t])
    \/ \E ed \in TextEdits :
         /\ handleInputChange(ed[1], ed[2])
         /\ Handled([type |-> "input"])
    \/ \E ed \in SliderEdits :
         /\ handleTransformChange(ed[1], ed[2], ed[3])
         /\ Handled([type |-> "slider"])
    \/ \E target \in Targets :
         /\ resetTransform(target)
         /\ Handled([type |-> "reset"])
    \/ \E p \in ClientPoints :
         /\ MouseDown(p)
         /\ Handled([type |-> "mousedown", pt |-> MousePoint(p)])
    \/ \E p \in ClientPoints :
         /\ MouseMove(p)
         /\ Handled([type |-> "mousemove", pt |-> MousePoint(p)])
    \/ MouseUp /\ Handled([type |-> "mouseup"])
    \/ MouseLeave /\ Handled([type |-> "mouseleave"])
    \/ \E p \in ClientPoints :
         /\ Len(touches) < MaxTouches
         /\ TouchStart(p)
         /\ Handled([type |-> "touchstart", pt |-> TouchPoint(touches')])
    \/ \E i \in 1..Len(touches), p \in ClientPoints :
         /\ TouchMove(i, p)
         /\ Handled([type |-> "touchmove", pt |-> TouchPoint(touches')])
    \/ \E i \in 1..Len(touches) :
         /\ TouchEnd(i)
         /\ Handled([type |-> "touchend"])

Spec == Init /\ [][Next]_vars

-----------------------------------------------------------------------------
(* Specification of the compositor, the coordinate mapper and the hit       *)
(* tester on their own: the session starts with a collage already set up    *)
(* (each image not selected, still being decoded, or decoded in one of      *)
(* several sizes; the canvas laid out in one of several ways) and the user  *)
(* edits the texts, moves the sliders, resets and moves the mouse.          *)

\* natural sizes of the primary image: portrait, wide, exactly the fitted
\* area, a single pixel, and a banner wider than the canvas
CharSizes == { <<200, 300>>, <<1480, 520>>, <<740, 1040>>, <<1, 1>>, <<3000, 100>> }

\* natural sizes of the pattern image: exactly the strip, and a small square
OverlaySizes == { <<1400, 300>>, <<100, 100>> }

\* layouts of the canvas element whose width and height divide 900 and 1200:
\* half resolution, full resolution at the corner, a third
RenderRects ==
    { [left |-> 10, top |-> 20, width |-> 450, height |-> 600],
      [left |-> 0, top |-> 0, width |-> 900, height |-> 1200],
      [left |-> 5, top |-> 7, width |-> 300, height |-> 400] }

\* the decoded images a layer can hold for resource src
RenderImages(src, sizes) ==
    {NoImage} \cup { [src |-> src, width |-> sz[1], height |-> sz[2]] : sz \in sizes }

RenderTexts == { <<"name", "">>, <<"name", "namae">>,
                 <<"furigana", "">>, <<"furigana", "furigana">> }

RenderSliders == { <<"character", "x", 100>>, <<"character", "scale", 1>>,
                   <<"character", "scale", 30>>, <<"character", "rotation", 90>>,
                   <<"overlay", "x", 50>>, <<"overlay", "rotation", -180>> }

\* the decode that is still running for a selected resource not yet loaded
PendingDecode(key, file) ==
    IF file # NoFile /\ loadedImages[key] = NoImage
    THEN {[key |-> key, file |-> file, active |-> TRUE]}
    ELSE {}

InitRender ==
    /\ loadedImages \in [char : RenderImages(1, CharSizes),
                         overlay : RenderImages(2, OverlaySizes)]
    /\ config \in { [InitialConfig EXCEPT !.characterImage = cf, !.overlayImage = pf] :
                       cf \in {loadedImages.char.src, 1},
                       pf \in {loadedImages.overlay.src, 2} }
    /\ tasks = PendingDecode("char", config.characterImage)
                  \cup PendingDecode("overlay", config.overlayImage)
    /\ nextFile = 2
    /\ isDragging = FALSE
    /\ dragStart = [x |-> 0, y |-> 0]
    /\ initialDragTransform = [x |-> 0, y |-> 0]
    /\ isHoveringChar = FALSE
    /\ rect \in RenderRects
    /\ touches = <<>>
    /\ frame = drawCanvas(config, loadedImages)
    /\ events = 0
    /\ gesture = NoGesture
    /\ discarded = {}

\* a step of a session that is not observed
Unobserved == UNCHANGED <<events, gesture, discarded>>

NextRender ==
    \/ \E ed \in RenderTexts :
         handleInputChange(ed[1], ed[2]) /\ Unobserved
    \/ \E ed \in RenderSliders :
         handleTransformChange(ed[1], ed[2], ed[3]) /\ Unobserved
    \/ \E target \in Targets :
         resetTransform(target) /\ Unobserved
    \/ \E p \in ClientPoints :
         MouseMove(p) /\ Unobserved
    \/ Redraw /\ Unobserved

SpecRender == InitRender /\ [][NextRender]_vars

-----------------------------------------------------------------------------
(* Image loading: claims C1 - C4 *)

LoadedKeys == {"char", "overlay"}

\* C1: at every render, a decoded image handed to the compositor for a layer
\* was decoded from the resource that the rendered configuration selects for
\* that layer.
C1_RenderUsesSelectedResource ==
    /\ frame.char # NoImage => frame.char.src = frame.config.characterImage
    /\ frame.overlay # NoImage => frame.overlay.src = frame.config.overlayImage

\* C2: the completion (success or failure) of a decode whose resource has
\* been replaced never changes the stored decoded image of its layer.
C2_StaleCompletionDiscarded ==
    [][ \A t \in tasks :
          (/\ Superseded(t)
           /\ \/ DecodeFails(t)
              \/ \E sz \in ImageSizes : DecodeSucceeds(t, sz[1], sz[2]))
            => loadedImages'[t.key] = loadedImages[t.key] ]_vars

\* the decode of a replaced resource has settled and left no trace: its
\* layer holds the decoded image of the resource that replaced it
C2_Witness ==
    \E key \in LoadedKeys :
        /\ loadedImages[key] # NoImage
        /\ loadedImages[key].src = config[ImageFieldOf(key)]
        /\ \E f \in discarded : f < loadedImages[key].src
        /\ \A t \in tasks : t.key # key

\* C3: when the decode of the selected resource of a layer fails, the layer
\* is absent afterwards: its stored decoded image is null and the frame on
\* the canvas was drawn without it.
C3_FailedDecodeLeavesLayerAbsent ==
    [][ \A t \in tasks :
          (~Superseded(t) /\ DecodeFails(t))
            => /\ loadedImages'[t.key] = NoImage
               /\ frame'[t.key] = NoImage ]_vars

\* C4: the decoded image of a replaced resource is released once the
\* decodes of its layer have completed: when no decode of a layer is
\* pending (nothing is left that a fair scheduler still has to run), the
\* layer holds no decoded image of a resource other than the selected one.
C4_SupersededImageReleased ==
    \A key \in LoadedKeys :
        (\A t \in tasks : t.key # key)
            => \/ loadedImages[key] = NoImage
               \/ loadedImages[key].src = config[ImageFieldOf(key)]

-----------------------------------------------------------------------------
(* Drag controller: claims C5 - C10 *)

\* the state of the program without the platform's touch list
Program == <<config, loadedImages, tasks, nextFile, isDragging, dragStart,
             initialDragTransform, isHoveringChar, frame>>

\* the hit test of a canvas point in the current state
Hit(pt) == isPointInCharacter(pt.x, pt.y, loadedImages, config)

\* what C5 says of a pointer-down at canvas point pt
DownFromIdle(pt) ==
    IF loadedImages.char # NoImage /\ Hit(pt)
    THEN /\ isDragging'
         /\ dragStart' = pt
         /\ initialDragTransform' = Offset(config)
         /\ UNCHANGED <<config, loadedImages, tasks, nextFile, isHoveringChar, frame>>
    ELSE UNCHANGED Program

\* C5: from Idle, a pointer-down (mouse, or the first touch) at canvas point
\* p starts a drag exactly when a decoded primary image is present and p is
\* inside the hit region; then anchorPoint (dragStart) = p and
\* anchorTransformOffset (initialDragTransform) = the primary offset, and
\* nothing else changes; otherwise nothing changes at all.
C5_PointerDownFromIdle ==
    [][ \A p \in ClientPoints :
          /\ (~isDragging /\ MouseDown(p)) => DownFromIdle(MousePoint(p))
          /\ (~isDragging /\ touches = <<>> /\ TouchStart(p))
                => DownFromIdle(TouchPoint(touches')) ]_vars

\* the first touch has just started a drag of an image that was moved before
C5_Witness ==
    /\ isDragging
    /\ gesture.phase = "dragging" /\ gesture.by = "touchstart"
    /\ gesture.clean /\ gesture.last = gesture.P
    /\ Len(touches) = 1
    /\ dragStart = TouchPoint(touches)
    /\ initialDragTransform = Offset(config)
    /\ initialDragTransform.x # 0

\* what C6 says of a pointer-move to canvas point pt
MoveWhileDragging(pt) ==
    /\ config'.characterTransform.x = initialDragTransform.x + (pt.x - dragStart.x)
    /\ config'.characterTransform.y = initialDragTransform.y + (pt.y - dragStart.y)
    /\ isDragging'

\* C6: while Dragging, a pointer-move to canvas point p sets the primary
\* offset to anchorTransformOffset + (p - anchorPoint), unclamped, and the
\* controller stays Dragging.
C6_DragMoveSetsOffset ==
    [][ \A p \in ClientPoints :
          /\ (isDragging /\ MouseMove(p)) => MoveWhileDragging(MousePoint(p))
          /\ \A i \in 1..Len(touches) :
               (isDragging /\ TouchMove(i, p))
                 => MoveWhileDragging(TouchPoint(touches')) ]_vars

\* a move has dragged the layer's centre beyond the right edge of the canvas
C6_Witness ==
    /\ isDragging
    /\ gesture.phase = "dragging" /\ gesture.clean
    /\ gesture.last # gesture.P
    /\ CenterX + config.characterTransform.x > CanvasWidth
    /\ config.characterTransform.x = initialDragTransform.x + (gesture.last.x - dragStart.x)

\* C7: a pointer-up, pointer-leave or touch-end leaves the controller Idle
\* and the primary transform as it was; while Idle no pointer-move changes
\* the primary offset; and the controller leaves Idle only by a pointer-down
\* whose pointer position is inside the hit region.
C7_PointerUpEndsDrag ==
    [][ /\ (MouseUp \/ MouseLeave \/ \E i \in 1..Len(touches) : TouchEnd(i))
           => ~isDragging' /\ config'.characterTransform = config.characterTransform
        /\ (/\ ~isDragging
            /\ \E p \in ClientPoints :
                 MouseMove(p) \/ \E i \in 1..Len(touches) : TouchMove(i, p))
           => ~isDragging' /\ Offset(config') = Offset(config)
        /\ (~isDragging /\ isDragging')
           => \E p \in ClientPoints :
                \/ MouseDown(p) /\ Hit(MousePoint(p))
                \/ TouchStart(p) /\ Hit(TouchPoint(touches')) ]_vars

\* the pointer has just left the canvas and ended a drag that moved the image
C7_Witness ==
    /\ gesture.phase = "ended" /\ gesture.end = "mouseleave"
    /\ ~isDragging
    /\ Offset(config) # gesture.a

\* C8: during and at the end of a drag made of a pointer-down at P, taken
\* with primary offset a, and pointer moves, the last of them to P + D, the
\* primary offset is exactly a + D, however many drags came before; when the
\* pointer is back at P the offset is a again.
C8_DragConsistency ==
    (gesture.phase # "none" /\ gesture.clean)
        => /\ config.characterTransform.x = gesture.a.x + (gesture.last.x - gesture.P.x)
           /\ config.characterTransform.y = gesture.a.y + (gesture.last.y - gesture.P.y)
           /\ gesture.last = gesture.P => Offset(config) = gesture.a

\* the second drag, begun with the offset the first one left, has moved
C8_Witness ==
    /\ gesture.n = 2
    /\ gesture.phase = "dragging" /\ gesture.clean
    /\ gesture.last # gesture.P
    /\ gesture.a # [x |-> 0, y |-> 0]

\* C9: while a drag started by the first touch is active, the start, the
\* movement and the end of another touch point change neither the drag
\* state nor the primary offset.
C9_SecondTouchIgnored ==
    [][ (/\ gesture.phase = "dragging" /\ gesture.by = "touchstart"
         /\ Len(touches) >= 1
         /\ \E p \in ClientPoints :
              \/ TouchStart(p)
              \/ \E i \in 2..Len(touches) : TouchMove(i, p) \/ TouchEnd(i))
          => /\ isDragging' = isDragging
             /\ Offset(config') = Offset(config) ]_vars

\* what C10 says of a pointer-move to canvas point pt
IdleMoveSetsHover(pt) ==
    /\ ~isDragging'
    /\ config' = config
    /\ isHoveringChar' = Hit(pt)

\* C10, as claimed: in Idle a pointer-move, by the mouse or by the first
\* touch point, leaves the controller Idle and the configuration unchanged
\* and sets the hover flag to the hit test of the moved-to point.
C10_IdleMoveSetsHover ==
    [][ \A p \in ClientPoints :
          /\ (~isDragging /\ MouseMove(p)) => IdleMoveSetsHover(MousePoint(p))
          /\ (~isDragging /\ touches # <<>> /\ TouchMove(1, p))
                => IdleMoveSetsHover(TouchPoint(touches')) ]_vars

\* C10, amended: in Idle a pointer-move leaves the controller Idle and the
\* configuration unchanged; a mouse move sets the hover flag to the hit test
\* of the moved-to point and a touch move leaves the hover flag as it was.
C10_IdleMoveHoverMouseOnly ==
    [][ \A p \in ClientPoints :
          /\ (~isDragging /\ MouseMove(p)) => IdleMoveSetsHover(MousePoint(p))
          /\ \A i \in 1..Len(touches) :
               (~isDragging /\ TouchMove(i, p))
                 => /\ ~isDragging'
                    /\ config' = config
                    /\ isHoveringChar' = isHoveringChar ]_vars

\* the mouse has moved onto the image while no drag was ever started
C10_Witness ==
    /\ isHoveringChar
    /\ ~isDragging
    /\ gesture.n = 0
    /\ loadedImages.char # NoImage

-----------------------------------------------------------------------------
(* Hit tester: claim C11 *)

Abs(n) == IF n < 0 THEN -n ELSE n
Least(m, n) == IF m <= n THEN m ELSE n

\* the box the hit tester is said to test: its size is the image's size
\* times min(740 / imgW, 1040 / imgH) times the scale, that is, the width
\* min(740, 1040 * imgW / imgH) * scale and the height
\* min(740 * imgH / imgW, 1040) * scale, the scale being sc / 10.  A point
\* at distance dx, dy from the centre is in the closed box when twice its
\* distance is at most the size on each axis.
InClaimedBox(dx, dy, img, sc) ==
    /\ 20 * Abs(dx) <= 740 * sc
    /\ 20 * Abs(dx) * img.height <= 1040 * img.width * sc
    /\ 20 * Abs(dy) * img.width <= 740 * img.height * sc
    /\ 20 * Abs(dy) <= 1040 * sc

\* the whole units in half the width and in half the height of that box
ClaimedHalfW(img, sc) ==
    Least((740 * sc) \div 20, (1040 * img.width * sc) \div (20 * img.height))
ClaimedHalfH(img, sc) ==
    Least((740 * img.height * sc) \div (20 * img.width), (1040 * sc) \div 20)

\* distances from the centre to probe: the centre, the last whole unit
\* inside and the first outside the half size hw, and far out, both ways
ProbeDistances(hw) == {0, hw, -hw, hw + 1, -(hw + 1), 2 * hw + 7, -(2 * hw + 7)}

\* rotation values the slider can give
ProbeRotations == {-180, -90, 0, 45, 90, 180}

\* C11: with a decoded primary image, the hit test of a point is true
\* exactly when the point is in the closed axis-aligned box of size
\* (imgW * baseScale * scale, imgH * baseScale * scale) centred at
\* (450 + transform.x, 600 + transform.y), baseScale = min(740 / imgW,
\* 1040 / imgH); the result is the same for every rotation; the centre tests
\* inside; a point one unit beyond the half width or the half height, on
\* either side, tests outside.
C11_HitTestIsClosedBox ==
    loadedImages.char # NoImage =>
      LET img == loadedImages.char
          tr == config.characterTransform
          cx == 450 + tr.x
          cy == 600 + tr.y
          hw == ClaimedHalfW(img, tr.scale)
          hh == ClaimedHalfH(img, tr.scale)
      IN  /\ \A dx \in ProbeDistances(hw), dy \in ProbeDistances(hh) :
               /\ Hit([x |-> cx + dx, y |-> cy + dy])
                    <=> InClaimedBox(dx, dy, img, tr.scale)
               /\ \A r \in ProbeRotations :
                    isPointInCharacter(cx + dx, cy + dy, loadedImages,
                        [config EXCEPT !.characterTransform.rotation = r])
                      <=> Hit([x |-> cx + dx, y |-> cy + dy])
          /\ Hit([x |-> cx, y |-> cy])
          /\ \A side \in {-1, 1} :
               /\ ~Hit([x |-> cx + side * (hw + 1), y |-> cy])
               /\ ~Hit([x |-> cx, y |-> cy + side * (hh + 1)])

\* the mouse is over a primary image that was moved to x = 100 and turned a
\* quarter, and the hit test has said so
C11_Witness ==
    /\ loadedImages.char # NoImage
    /\ loadedImages.char.width # loadedImages.char.height
    /\ config.characterTransform.x = 100
    /\ config.characterTransform.rotation = 90
    /\ isHoveringChar

-----------------------------------------------------------------------------
(* Compositor: claims C12 - C14 *)

\* the painting calls of the frame on the canvas
FrameOps == Paint(BlankCanvas, frame).ops

\* the place of a stage in the fixed order
StageRank(stage) ==
    CASE stage = "background" -> 1
      [] stage = "strip" -> 2
      [] stage = "overlay" -> 3
      [] stage = "character" -> 4
      [] stage = "furigana" -> 5
      [] stage = "name" -> 6

\* C12: each render emits its drawing operations in the fixed order
\* background fill with bgColor1, accent band fill with bgColor2, secondary
\* layer (clip, then draw), primary layer, phonetic annotation (stroke, then
\* fill), name (stroke, then fill): no operation of a later stage precedes
\* one of an earlier stage.
C12_FixedDrawingOrder ==
    LET ops == FrameOps IN
    /\ Len(ops) >= 2
    /\ ops[1].stage = "background" /\ ops[1].op = "fillRect"
    /\ ops[1].ctx.fillStyle = frame.config.bgColor1
    /\ ops[2].stage = "strip" /\ ops[2].op = "fillRect"
    /\ ops[2].ctx.fillStyle = frame.config.bgColor2
    /\ \A i \in 1..Len(ops), j \in 1..Len(ops) :
         i < j =>
           /\ StageRank(ops[i].stage) <= StageRank(ops[j].stage)
           /\ ops[i].stage = ops[j].stage =>
                /\ ~(ops[i].op = "drawImage" /\ ops[j].op = "clip")
                /\ ~(ops[i].op = "fillText" /\ ops[j].op = "strokeText")

\* a frame with all six stages: both images and both texts
C12_Witness ==
    /\ Len(FrameOps) = 9
    /\ { FrameOps[i].stage : i \in 1..Len(FrameOps) }
         = {"background", "strip", "overlay", "character", "furigana", "name"}
    /\ frame.config.characterTransform # INITIAL_TRANSFORM

\* the painting calls of a stage among those of frame f
StageOps(f, stage) == SelectSeq(Paint(BlankCanvas, f).ops, LAMBDA o : o.stage = stage)

\* the stages a frame paints
StagesOf(f) == { Paint(BlankCanvas, f).ops[i].stage : i \in 1..Len(Paint(BlankCanvas, f).ops) }

\* transforms to try on an absent layer
ProbeTransforms ==
    { INITIAL_TRANSFORM, [x |-> 100, y |-> -50, scale |-> 30, rotation |-> 90],
      [x |-> -400, y |-> 400, scale |-> 1, rotation |-> -180] }

\* C13: the clip / transform / draw steps of a layer are emitted if and only
\* if the decoded image of that layer is present, whatever the other layer
\* is; with both images absent the operations are exactly the background
\* fill, the accent band and the text, and they are the same for all values
\* of the two transforms.
C13_LayerDrawnIffImagePresent ==
    /\ "overlay" \in StagesOf(frame) <=> frame.overlay # NoImage
    /\ "character" \in StagesOf(frame) <=> frame.char # NoImage
    /\ frame.overlay # NoImage =>
         /\ Len(StageOps(frame, "overlay")) = 2
         /\ StageOps(frame, "overlay")[1].op = "clip"
         /\ StageOps(frame, "overlay")[2].op = "drawImage"
         /\ StageOps(frame, "overlay")[2].img = frame.overlay.src
    /\ frame.char # NoImage =>
         /\ Len(StageOps(frame, "character")) = 1
         /\ StageOps(frame, "character")[1].op = "drawImage"
         /\ StageOps(frame, "character")[1].img = frame.char.src
    /\ StageOps([frame EXCEPT !.overlay = NoImage], "character")
         = StageOps(frame, "character")
    /\ StageOps([frame EXCEPT !.char = NoImage], "overlay")
         = StageOps(frame, "overlay")
    /\ (frame.char = NoImage /\ frame.overlay = NoImage) =>
         /\ StagesOf(frame) \subseteq {"background", "strip", "furigana", "name"}
         /\ {"background", "strip"} \subseteq StagesOf(frame)
         /\ \A t1 \in ProbeTransforms, t2 \in ProbeTransforms :
              Paint(BlankCanvas, [frame EXCEPT !.config.characterTransform = t1,
                                               !.config.overlayTransform = t2]).ops
                = FrameOps

\* both layers are absent (their decodes have not completed) while their
\* sliders were moved, and the frame holds only background, band and text
C13_Witness ==
    /\ frame.char = NoImage /\ frame.overlay = NoImage
    /\ frame.config.characterTransform.scale = 30
    /\ frame.config.overlayTransform.x = 50
    /\ Len(FrameOps) = 6

\* canvases as earlier renders left them: the blank one, the one this frame
\* was painted on, and those painted with other texts, without the images,
\* with the images exchanged for others, and with other transforms
EarlierFrames ==
    { frame,
      drawCanvas(InitialConfig, [char |-> NoImage, overlay |-> NoImage]),
      [frame EXCEPT !.config.name = "earlier", !.config.furigana = ""],
      [frame EXCEPT !.char = NoImage, !.overlay = NoImage],
      [frame EXCEPT !.char = [src |-> 7, width |-> 64, height |-> 64],
                    !.overlay = [src |-> 8, width |-> 32, height |-> 640],
                    !.config.characterTransform =
                        [x |-> -400, y |-> 400, scale |-> 1, rotation |-> -180],
                    !.config.overlayTransform =
                        [x |-> 100, y |-> -50, scale |-> 30, rotation |-> 90]] }

EarlierCanvases ==
    {BlankCanvas} \cup { Paint(BlankCanvas, f) : f \in EarlierFrames }
                  \cup { Paint(Paint(BlankCanvas, g), f) : f \in EarlierFrames, g \in EarlierFrames }

\* C14: a render is idempotent and free of history: the canvas after a
\* render with a given configuration and given decoded images (its painting
\* calls, the drawing state each is made in, and the state the context is
\* left in) is the same whatever was rendered on it before, and rendering
\* it again changes nothing.
C14_RenderIdempotent ==
    /\ \A c \in EarlierCanvases : Paint(c, frame) = Paint(BlankCanvas, frame)
    /\ Paint(Paint(BlankCanvas, frame), frame) = Paint(BlankCanvas, frame)

\* the frame was rendered after other frames (texts and sliders were
\* edited) and holds both images
C14_Witness ==
    /\ frame.char # NoImage /\ frame.overlay # NoImage
    /\ frame.config.name = "" /\ frame.config.furigana # ""
    /\ frame.config.characterTransform.rotation = 90
    /\ frame.config.overlayTransform.rotation = -180
    /\ Len(FrameOps) = 7

-----------------------------------------------------------------------------
(* Compositor and the rest of the state: claims C15, C16 *)

\* C15: a render never changes the configuration, the decoded images or the
\* state of the drag session: all are the same before and after it.
C15_RenderChangesOnlyCanvas ==
    [][ Redraw => UNCHANGED <<config, loadedImages, isDragging, dragStart,
                              initialDragTransform, isHoveringChar>> ]_vars

\* a frame was rendered while the mouse was over a moved image, and the
\* hover flag, the configuration and the image are as the handlers left them
C15_Witness ==
    /\ isHoveringChar
    /\ loadedImages.char # NoImage
    /\ config.characterTransform.x = 100
    /\ config.name = ""
    /\ frame = drawCanvas(config, loadedImages)

\* C16: every mutation of the configuration or of the decoded images (a
\* text, a colour, a slider, a reset, an upload, the completion of a decode,
\* each move of a drag) is followed by a full render that uses the latest
\* values: whenever no event is being handled, the frame rendered last is
\* the render of the current configuration and the current decoded images.
C16_FrameIsCurrent == frame = drawCanvas(config, loadedImages)

\* a drag has moved a decoded image whose name was erased, and the frame
\* shows it where the drag put it
C16_Witness ==
    /\ gesture.phase = "dragging" /\ gesture.last # gesture.P
    /\ loadedImages.char # NoImage
    /\ config.name = ""
    /\ Offset(config) # [x |-> 0, y |-> 0]
    /\ frame.config.characterTransform = config.characterTransform
    /\ frame.char = loadedImages.char

-----------------------------------------------------------------------------
(* Coordinate mapper: claim C17 *)

\* pointer positions to map: on the corners of the element, inside, and
\* outside it on either side
ProbeClients ==
    { [x |-> rect.left + a, y |-> rect.top + b] :
        a \in {-3, 0, 1, 10, rect.width \div 3, rect.width, rect.width + 5},
        b \in {-3, 0, 7, rect.height \div 4, rect.height} }

\* C17: with the canvas mounted at bounds (left, top, w, h), a pointer at
\* (px, py) is mapped to ((px - left) * 900 / w, (py - top) * 1200 / h);
\* so, with the canvas displayed at half its internal resolution, a pointer
\* delta of 10 display units is a delta of 20 canvas units on each axis.
C17_PointerToCanvasSpace ==
    \A p \in ProbeClients :
      LET m == getCanvasCoordinates(p.x, p.y)
          n == getCanvasCoordinates(p.x + 10, p.y + 10)
      IN  /\ m.x * rect.width = (p.x - rect.left) * 900
          /\ m.y * rect.height = (p.y - rect.top) * 1200
          /\ (2 * rect.width = 900 /\ 2 * rect.height = 1200)
               => (n.x - m.x = 20 /\ n.y - m.y = 20)

\* on a canvas displayed at half resolution, the mapped position of the
\* mouse was found to be on the image moved to x = 100
C17_Witness ==
    /\ 2 * rect.width = 900 /\ 2 * rect.height = 1200
    /\ rect.left # 0 /\ rect.top # 0
    /\ config.characterTransform.x = 100
    /\ config.characterTransform.scale = 1
    /\ isHoveringChar

-----------------------------------------------------------------------------
(* Geometry of the primary layer: claims C18, C20 *)

\* natural sizes to render: every small size, and large and extreme ones
\* (the products of the check stay below 2^31)
ProbeSizes ==
    ((1..8) \X (1..8))
      \cup { <<200, 300>>, <<740, 1040>>, <<1000, 900>>, <<37, 52>>, <<741, 1040>>,
             <<740, 1041>>, <<3000, 100>>, <<100, 3000>>, <<1, 5000>> }

\* what C18 says of frame f, which has a primary image: its drawImage call
\* is made under translate(450, 600), rotate(0), scale(1, 1) and nothing
\* else; the rectangle drawn has its centre at the origin, a width of at
\* most 740 and a height of at most 1040, one of the two attained, and the
\* proportions of the image.  The call's lengths are xN/D, yN/D, wN/D, hN/D.
IdentityBox(f) ==
    LET op == StageOps(f, "character")[1]
        xN == op.args[1]
        yN == op.args[2]
        wN == op.args[3]
        hN == op.args[4]
        D == op.args[5]
    IN  /\ op.ctx.transform = << [t |-> "translate", a |-> 450, b |-> 600],
                                 [t |-> "rotate", a |-> 0, b |-> 0],
                                 [t |-> "scale", a |-> 10, b |-> 10] >>
        /\ D > 0 /\ wN > 0 /\ hN > 0
        /\ 2 * xN + wN = 0
        /\ 2 * yN + hN = 0
        /\ wN <= 740 * D
        /\ hN <= 1040 * D
        /\ wN = 740 * D \/ hN = 1040 * D
        /\ wN * f.char.height = hN * f.char.width

\* C18: a primary image of any positive natural size rendered with the
\* identity transform {0, 0, 1, 0} is drawn in a box centred exactly at
\* (450, 600), at most 740 wide and 1040 high, one of the two attained, with
\* the proportions of the image.
C18_IdentityTransformFits ==
    /\ (frame.char # NoImage /\ frame.config.characterTransform = INITIAL_TRANSFORM)
         => IdentityBox(frame)
    /\ \A sz \in ProbeSizes :
         IdentityBox([frame EXCEPT
                        !.char = [src |-> 1, width |-> sz[1], height |-> sz[2]],
                        !.config.characterTransform = INITIAL_TRANSFORM])

\* a banner much wider than the canvas is drawn with the identity transform
\* restored by a reset after a slider had moved it; the pattern was moved too
C18_Witness ==
    /\ frame.char # NoImage
    /\ frame.char.width = 3000
    /\ frame.config.characterTransform = INITIAL_TRANSFORM
    /\ frame.overlay # NoImage
    /\ frame.config.overlayTransform.x = 50
    /\ isHoveringChar

\* the hit test of a canvas point with the values a frame was rendered with
FrameHit(f, x, y) ==
    isPointInCharacter(x, y, [char |-> f.char, overlay |-> f.overlay], f.config)

\* what C20 says of frame f, which has a primary image that is not rotated:
\* the drawImage call is made under translate(a, b), rotate(0), scale(s, s)
\* and draws a rectangle centred at the origin, so the compositor's box has
\* its centre at (a, b) and the size (wN / D) * s / 10 by (hN / D) * s / 10;
\* the hit test is true at the points of that box and nowhere else.
HitBoxIsDrawnBox(f) ==
    LET op == StageOps(f, "character")[1]
        tf == op.ctx.transform
        wN == op.args[3]
        hN == op.args[4]
        D == op.args[5]
        s == tf[3].a
        hw == (wN * s) \div (20 * D)
        hh == (hN * s) \div (20 * D)
    IN  /\ Len(tf) = 3
        /\ tf[1].t = "translate"
        /\ tf[2] = [t |-> "rotate", a |-> 0, b |-> 0]
        /\ tf[3].t = "scale" /\ tf[3].b = s
        /\ 2 * op.args[1] + wN = 0
        /\ 2 * op.args[2] + hN = 0
        /\ \A dx \in ProbeDistances(hw), dy \in ProbeDistances(hh) :
             FrameHit(f, tf[1].a + dx, tf[1].b + dy)
               <=> (20 * D * Abs(dx) <= wN * s /\ 20 * D * Abs(dy) <= hN * s)

\* C20: the hit tester and the compositor agree on the geometry of the
\* primary layer: for every image size, offset and scale, the box of the
\* hit test (its centre, width and height) is the box in which the
\* compositor draws the primary image when the rotation is 0.
C20_HitBoxMatchesDrawnBox ==
    /\ (frame.char # NoImage /\ frame.config.characterTransform.rotation = 0)
         => HitBoxIsDrawnBox(frame)
    /\ \A sz \in {<<3, 5>>, <<5, 3>>, <<37, 52>>, <<1000, 900>>},
          tr \in ProbeTransforms :
         HitBoxIsDrawnBox([frame EXCEPT
                             !.char = [src |-> 1, width |-> sz[1], height |-> sz[2]],
                             !.config.characterTransform = [tr EXCEPT !.rotation = 0]])

\* the frame shows the image enlarged three times and moved to x = 100, not
\* rotated, and the hit test found the mouse on it
C20_Witness ==
    /\ frame.char # NoImage
    /\ frame.config.characterTransform = [x |-> 100, y |-> 0, scale |-> 30, rotation |-> 0]
    /\ frame.char.width < frame.char.height
    /\ isHoveringChar

-----------------------------------------------------------------------------
(* Text layer: claim C19 *)

\* the attributes of the drawing state that a painting call reads
UsedAttrs(op) ==
    LET common == {"transform", "clip", "filter", "globalCompositeOperation",
                   "shadowColor", "shadowBlur", "shadowOffsetX", "shadowOffsetY"}
        texts == {"font", "textAlign", "textBaseline"}
    IN  CASE op = "fillRect" -> common \cup {"fillStyle"}
          [] op = "drawImage" -> common
          [] op = "strokeText" -> common \cup texts \cup {"strokeStyle", "lineWidth", "lineJoin"}
          [] op = "fillText" -> common \cup texts \cup {"fillStyle"}
          [] op = "clip" -> {"transform"}

\* what the painting calls of a stage put on the canvas: each call with the
\* part of the drawing state it reads
PaintedBy(f, stage) ==
    LET ops == StageOps(f, stage)
    IN  [ i \in 1..Len(ops) |->
            [op |-> ops[i].op, text |-> ops[i].text, img |-> ops[i].img,
             args |-> ops[i].args,
             ctx |-> [ a \in UsedAttrs(ops[i].op) |-> ops[i].ctx[a] ]] ]

\* what C19 says of the text `text` drawn in stage `stage` of frame f
TextDrawnIffNonEmpty(f, stage, text) ==
    IF text = ""
    THEN StageOps(f, stage) = <<>>
    ELSE /\ Len(StageOps(f, stage)) = 2
         /\ StageOps(f, stage)[1].op = "strokeText"
         /\ StageOps(f, stage)[2].op = "fillText"
         /\ StageOps(f, stage)[1].text = text
         /\ StageOps(f, stage)[2].text = text

\* C19: the text draw (stroke and fill) of the phonetic annotation, and that
\* of the name, is emitted if and only if the string is not empty; an empty
\* string gives no text operation at all; the drawing of the other string
\* is not affected.
C19_EmptyTextSkipped ==
    /\ TextDrawnIffNonEmpty(frame, "furigana", frame.config.furigana)
    /\ TextDrawnIffNonEmpty(frame, "name", frame.config.name)
    /\ \A i \in 1..Len(FrameOps) :
         FrameOps[i].op \in {"strokeText", "fillText"}
           => FrameOps[i].stage \in {"furigana", "name"}
    /\ \A other \in {"", "furigana", "another"} :
         PaintedBy([frame EXCEPT !.config.furigana = other], "name")
           = PaintedBy(frame, "name")
    /\ \A other \in {"", "namae", "another"} :
         PaintedBy([frame EXCEPT !.config.name = other], "furigana")
           = PaintedBy(frame, "furigana")

\* the phonetic annotation was erased and the name is still drawn, over a
\* decoded image
C19_Witness ==
    /\ frame.config.furigana = ""
    /\ frame.config.name # ""
    /\ frame.char # NoImage
    /\ Len(StageOps(frame, "name")) = 2
    /\ StageOps(frame, "furigana") = <<>>

-----------------------------------------------------------------------------
(* Isolation of the stages: claim C21 *)

\* the drawing state of a painting call has nothing of the band or of the
\* pattern: no clip, no filter, the default blend
FreeOfBand(o) ==
    /\ o.ctx.clip = <<>>
    /\ o.ctx.filter = "none"
    /\ o.ctx.globalCompositeOperation = "source-over"
    /\ \A k \in 1..Len(o.ctx.transform) :
         /\ o.ctx.transform[k] # [t |-> "translate", a |-> -100, b |-> 850]
         /\ o.ctx.transform[k] # [t |-> "rotate", a |-> -10, b |-> 0]

\* the drawing state of a painting call has no drop shadow and no transform
FreeOfCharacter(o) ==
    /\ o.ctx.transform = <<>>
    /\ o.ctx.shadowColor = "transparent"
    /\ o.ctx.shadowBlur = 0
    /\ o.ctx.shadowOffsetX = 0
    /\ o.ctx.shadowOffsetY = 0

\* C21: the drawing state set for one stage never leaks into a later one:
\* save and restore are balanced in every render, so the band's translate
\* and rotate, the band clip, the grayscale / opacity filter and the
\* multiply blend are not in effect when the primary layer and the text are
\* drawn, and the primary layer's transform and drop shadow are not in
\* effect when the text is drawn, whether or not either image is present.
C21_StagesIsolated ==
    /\ Paint(BlankCanvas, frame).stack = <<>>
    /\ \A i \in 1..Len(FrameOps) :
         LET o == FrameOps[i] IN
         /\ o.stage \in {"character", "furigana", "name"} => FreeOfBand(o)
         /\ o.stage \in {"furigana", "name"} => FreeOfCharacter(o)
         /\ o.stage = "character" =>
              /\ Len(o.ctx.transform) = 3
              /\ o.ctx.transform[1] =
                   [t |-> "translate", a |-> 450 + frame.config.characterTransform.x,
                    b |-> 600 + frame.config.characterTransform.y]

    /\ \A pattern \in {NoImage, [src |-> 8, width |-> 32, height |-> 640]} :
         /\ PaintedBy([frame EXCEPT !.overlay = pattern], "character")
              = PaintedBy(frame, "character")
         /\ \A image \in {NoImage, [src |-> 7, width |-> 64, height |-> 64]},
               stage \in {"furigana", "name"} :
              PaintedBy([frame EXCEPT !.overlay = pattern, !.char = image], stage)
                = PaintedBy(frame, stage)

\* both layers are drawn, turned and moved, under both texts
C21_Witness ==
    /\ frame.char # NoImage /\ frame.overlay # NoImage
    /\ frame.config.overlayTransform = [x |-> 50, y |-> 0, scale |-> 10, rotation |-> -180]
    /\ frame.config.characterTransform = [x |-> 100, y |-> 0, scale |-> 30, rotation |-> 90]
    /\ Len(StageOps(frame, "furigana")) = 2
    /\ Len(StageOps(frame, "name")) = 2

-----------------------------------------------------------------------------
(* Uploads and drags against the rest of the configuration: C22 - C24 *)

OtherField(field) == IF field = "characterImage" THEN "overlayImage" ELSE "characterImage"

\* C22: selecting a new image file for a layer sets the layer's resource to
\* the file and resets the layer's transform to the identity {0, 0, 1, 0};
\* the other layer's resource and transform, the texts and the colours are
\* unchanged; a change event of the file input with no file changes nothing.
C22_UploadResetsOwnTransform ==
    [][ \A field \in ImageFields :
          /\ handleFileUpload(field, TRUE) =>
               /\ config'[field] = nextFile'
               /\ config'[field] # NoFile /\ config'[field] # config[field]
               /\ config'[TransformField(field)] =
                    [x |-> 0, y |-> 0, scale |-> 10, rotation |-> 0]
               /\ config'[OtherField(field)] = config[OtherField(field)]
               /\ config'[TransformField(OtherField(field))]
                    = config[TransformField(OtherField(field))]
               /\ config'.name = config.name
               /\ config'.furigana = config.furigana
               /\ config'.bgColor1 = config.bgColor1
               /\ config'.bgColor2 = config.bgColor2
          /\ handleFileUpload(field, FALSE) => UNCHANGED Program ]_vars

\* a second primary image was just selected (the first is still the decoded
\* one) and its transform is the identity, while the pattern stays moved
\* and the name erased
C22_Witness ==
    /\ loadedImages.char # NoImage
    /\ config.characterImage # loadedImages.char.src
    /\ \E t \in tasks : t.key = "char" /\ t.file = config.characterImage /\ t.active
    /\ config.characterTransform = INITIAL_TRANSFORM
    /\ config.overlayImage # NoFile
    /\ config.overlayTransform.x = 50

\* C23: in every reachable state, Dragging implies that a decoded primary
\* image is present: a drag never starts while the primary layer has no
\* decoded image, and the decoded primary image never becomes absent while
\* a drag is active.
C23_DraggingHasImage == isDragging => loadedImages.char # NoImage

\* a drag is active, something other than pointer moves happened during it
\* and another primary image is being decoded: the one dragged is still there
C23_Witness ==
    /\ isDragging
    /\ gesture.phase = "dragging" /\ ~gesture.clean
    /\ loadedImages.char # NoImage
    /\ \E t \in tasks : t.key = "char" /\ t.active /\ t.file # loadedImages.char.src

\* what C24 says of a pointer-move to canvas point pt while Dragging
MoveSetsOnlyOffset(pt) ==
    /\ config' =
         [config EXCEPT
            !.characterTransform.x = initialDragTransform.x + (pt.x - dragStart.x),
            !.characterTransform.y = initialDragTransform.y + (pt.y - dragStart.y)]
    /\ UNCHANGED <<loadedImages, dragStart, initialDragTransform>>

\* C24: a pointer-move while Dragging changes only the x and y of the
\* primary transform, computed from the anchors captured at pointer-down:
\* the primary scale and rotation, the secondary transform, the texts, the
\* colours and the image resources are unchanged; a slider, a reset or an
\* upload during the drag leaves the anchors as they are, so whatever it
\* did to the primary x / y is overwritten by the next move with
\* anchorTransformOffset + (point - anchorPoint).
C24_DragMoveChangesOnlyOffset ==
    [][ /\ \A p \in ClientPoints :
             /\ (isDragging /\ MouseMove(p)) => MoveSetsOnlyOffset(MousePoint(p))
             /\ \A i \in 1..Len(touches) :
                  (isDragging /\ TouchMove(i, p))
                    => MoveSetsOnlyOffset(TouchPoint(touches'))
        /\ (/\ isDragging
            /\ \/ \E ed \in SliderEdits : handleTransformChange(ed[1], ed[2], ed[3])
               \/ \E target \in Targets : resetTransform(target)
               \/ \E field \in ImageFields : handleFileUpload(field, TRUE))
             => UNCHANGED <<isDragging, dragStart, initialDragTransform>> ]_vars

\* during a drag of an enlarged image a slider, a reset or an upload changed
\* the primary offset, and the move that followed put the image back where
\* the anchors and the pointer say
C24_Witness ==
    /\ isDragging
    /\ gesture.phase = "dragging" /\ gesture.over = "overwritten"
    /\ config.characterTransform.scale = 20
    /\ config.characterTransform.x = initialDragTransform.x + (gesture.last.x - dragStart.x)
    /\ config.characterTransform.y = initialDragTransform.y + (gesture.last.y - dragStart.y)

====
